---- MODULE Spec2Model ----
(***************************************************************************)
(* The WebSocket command router of src/src/WebSocketHelper.cpp: the        *)
(* connection registry (connections, last_connection), the envelope        *)
(* framing of send(), the command dispatch of onMessage() and the event    *)
(* handler onWebSocketEvent().                                             *)
(*                                                                         *)
(* The transport (the WebSockets server), the SD card, the console, the    *)
(* configuration store and the actuators are collaborators: the transport  *)
(* is the table `clients` of open client slots, the SD card is the set     *)
(* `sdDirs` of directories, and every call into the other collaborators is *)
(* recorded in `calls`.                                                    *)
(*                                                                         *)
(* Strings are sequences of chunks: a path and a console line are          *)
(* sequences of characters, a string literal of the code and a command     *)
(* name are one chunk.  A JSON value is a record [t, i, s, items].         *)
(***************************************************************************)
EXTENDS Integers, Sequences, FiniteSets, TLC

VARIABLES
  webSocket,        \* TRUE once begin() has created the server (else nullptr)
  clients,          \* transport: open client slot -> remote address
  connections,      \* std::map<int, WebSocketConnection*>
  last_connection,  \* the num of the latest CONNECTED event
  sdDirs,           \* SD card: the directories that exist
  millis,           \* the clock read by millis()
  store,            \* the configuration store: save_at, the deadline of the
                    \* scheduled write (0: none); edited, the time of the
                    \* latest edit (-1: none); began, the time of the first
                    \* edit of the latest burst; writes, the writes to the
                    \* card since that burst began
  sent,             \* frames the transport delivered during the latest event
  calls,            \* collaborator calls made during the latest event
  panicked,         \* the latest event ended in a CPU exception and a reboot
  lastEvent,        \* the latest event: [type, num, raw]
  codec             \* a payload on its way through send() and back through
                    \* deserializeJson: [phase, key, payload, text, decoded]

vars == <<webSocket, clients, connections, last_connection, sdDirs, millis,
          store, sent, calls, panicked, lastEvent, codec>>

-----------------------------------------------------------------------------
(* Bounds of the model *)

\* the transport's client slots are 0 .. MaxId
MaxId == 1

\* an inbound envelope holds at most MaxEntries command entries
MaxEntries == 2

Ids == 0 .. MaxId

\* the num arguments collaborators pass to the send helpers
Targets == -1 .. MaxId

Addresses == {"192.0.2.7"}

\* the clock runs up to MaxMillis, in steps of Steps milliseconds
MaxMillis == 800

Steps == {50, 300}

-----------------------------------------------------------------------------
(* JSON values (ArduinoJson variants) *)

Null == [t |-> "null", i |-> 0, s |-> <<>>, items |-> <<>>]

JInt(n) == [t |-> "int", i |-> n, s |-> <<>>, items |-> <<>>]

JStr(x) == [t |-> "str", i |-> 0, s |-> x, items |-> <<>>]

JBool(b) == [t |-> "bool", i |-> IF b THEN 1 ELSE 0, s |-> <<>>, items |-> <<>>]

JArr(xs) == [t |-> "arr", i |-> 0, s |-> <<>>, items |-> xs]

\* an object; its members are kept beside it (Args.members)
JObj == [t |-> "obj", i |-> 0, s |-> <<>>, items |-> <<>>]

\* a value read from a collaborator, named by the expression that reads it
Ext(name) == [t |-> "ext", i |-> 0, s |-> <<name>>, items |-> <<>>]

Member(k, v) == [k |-> k, v |-> v]

\* a request payload: the value itself and, for an object, its members
Scalar(v) == [self |-> v, members |-> <<>>]

Object(ms) == [self |-> JObj, members |-> ms]

RECURSIVE Find(_, _, _)
Find(ms, name, i) ==
  IF i > Len(ms) THEN Null
  ELSE IF ms[i].k = name THEN ms[i].v
  ELSE Find(ms, name, i + 1)

\* args["name"]: the member's value, null when args is no object or has none
Get(args, name) == Find(args.members, name, 1)

\* variant -> int: a number converts; null, a string that holds no number
\* and a container yield 0
asInt(v) == IF v.t \in {"int", "bool"} THEN v.i ELSE 0

\* variant -> bool: null is false, a number is its truth value, the rest true
asBool(v) ==
  CASE v.t = "null" -> FALSE
    [] v.t \in {"int", "bool"} -> v.i # 0
    [] OTHER -> TRUE

Digits == <<"0", "1", "2", "3", "4", "5", "6", "7", "8", "9">>

\* the decimal digits of a number
RECURSIVE Decimal(_)
Decimal(n) ==
  IF n < 0 THEN <<"-">> \o Decimal(0 - n)
  ELSE IF n < 10 THEN <<Digits[n + 1]>>
  ELSE Decimal(n \div 10) \o <<Digits[(n % 10) + 1]>>

\* the text of a string between its quotes: a quote and a backslash get a
\* backslash in front
Escape(x) ==
  [i \in 1 .. Len(x) |->
     CASE x[i] = "\"" -> "\\\""
       [] x[i] = "\\" -> "\\\\"
       [] OTHER -> x[i]]

\* the JSON text of a value that is no array: a string in quotes, a number
\* in digits, a collaborator's value by its name
SerScalar(v) ==
  CASE v.t = "str" -> <<"\"">> \o Escape(v.s) \o <<"\"">>
    [] v.t = "int" -> Decimal(v.i)
    [] v.t = "bool" -> IF v.i = 1 THEN <<"true">> ELSE <<"false">>
    [] v.t = "null" -> <<"null">>
    [] OTHER -> v.s

\* variant -> String: a string is itself, the rest is its JSON text
asString(v) == IF v.t = "str" THEN v.s ELSE SerScalar(v)

\* variant -> const char*: a string, else nullptr
IsCString(v) == v.t = "str"

-----------------------------------------------------------------------------
(* The state the handlers work on, threaded through one event *)

\* cur is the envelope entry being dispatched (0 outside onMessage)
Global ==
  [clients |-> clients, connections |-> connections,
   last_connection |-> last_connection, sdDirs |-> sdDirs, store |-> store,
   sent |-> <<>>, calls |-> <<>>, cur |-> 0, panic |-> FALSE]

\* a call into a collaborator: the function, a key argument, the argument
Call(fn, key, arg) == [fn |-> fn, key |-> key, arg |-> arg, entry |-> 0]

\* the call is made while entry st.cur is dispatched
Log(st, c) == [st EXCEPT !.calls = Append(@, [c EXCEPT !.entry = st.cur])]

\* a CPU exception (a load or store through nullptr): the handler stops
Panic(st) == [st EXCEPT !.panic = TRUE]

-----------------------------------------------------------------------------
(* Serialisation: the text of a document, as a sequence of chunks *)

Quoted(x) == <<"\"">> \o Escape(x) \o <<"\"">>

\* one entry of a directory listing: {"name":..,"size":..,"dir":..}
SerFile(f) ==
  <<"{">> \o Quoted(<<"name">>) \o <<":">> \o Quoted(f.name)
    \o <<",">> \o Quoted(<<"size">>) \o <<":">> \o Decimal(f.size)
    \o <<",">> \o Quoted(<<"dir">>) \o <<":">>
    \o SerScalar(JBool(f.dir)) \o <<"}">>

RECURSIVE SerFiles(_, _)
SerFiles(fs, i) ==
  IF i > Len(fs) THEN <<>>
  ELSE (IF i > 1 THEN <<",">> ELSE <<>>) \o SerFile(fs[i])
         \o SerFiles(fs, i + 1)

SerValue(v) ==
  IF v.t = "arr" THEN <<"[">> \o SerFiles(v.items, 1) \o <<"]">>
  ELSE SerScalar(v)

RECURSIVE SerMembers(_, _)
SerMembers(ms, i) ==
  IF i > Len(ms) THEN <<>>
  ELSE (IF i > 1 THEN <<",">> ELSE <<>>)
         \o Quoted(<<ms[i].k>>) \o <<":">> \o SerValue(ms[i].v)
         \o SerMembers(ms, i + 1)

SerDoc(doc) == <<"{">> \o SerMembers(doc, 1) \o <<"}">>

\* the bytes one member or one element takes in the pool of a document
\* (JSON_OBJECT_SIZE(1) of the 32-bit build)
SlotSize == 16

\* DynamicJsonDocument envelope(1024)
EnvelopeCapacity == 1024

\* the characters of a string
RECURSIVE StringBytes(_, _)
StringBytes(x, i) ==
  IF i > Len(x) THEN 0 ELSE Len(x[i]) + StringBytes(x, i + 1)

\* the bytes a copy of a String takes in the pool, the terminator included
\* (a literal is kept by its address and takes none; it is counted as well,
\* which the few short literals of the handlers let pass)
StringSize(x) == StringBytes(x, 1) + 1

\* one entry of a listing: the element, its three members and its name
FileSize(f) == 4 * SlotSize + StringSize(f.name)

\* the entries of a listing that the pool has room for
RECURSIVE CopyFiles(_, _, _)
CopyFiles(fs, i, room) ==
  IF i > Len(fs) \/ room < FileSize(fs[i]) THEN <<>>
  ELSE <<fs[i]>> \o CopyFiles(fs, i + 1, room - FileSize(fs[i]))

RECURSIVE FilesSize(_, _)
FilesSize(fs, i) ==
  IF i > Len(fs) THEN 0 ELSE FileSize(fs[i]) + FilesSize(fs, i + 1)

\* a deep copy of the members into a pool with room bytes left: the copy
\* stops, without an error, at the first slot or string the pool cannot
\* hold (an entry of a listing that does not fit as a whole is left out)
RECURSIVE CopyMembers(_, _, _)
CopyMembers(ms, i, room) ==
  IF i > Len(ms) \/ room < SlotSize THEN <<>>
  ELSE LET left == room - SlotSize
           v == ms[i].v
       IN CASE v.t = "str" ->
                 IF StringSize(v.s) <= left
                 THEN <<ms[i]>> \o CopyMembers(ms, i + 1, left - StringSize(v.s))
                 ELSE <<Member(ms[i].k, Null)>>
            [] v.t = "arr" ->
                 LET kept == CopyFiles(v.items, 1, left)
                 IN IF Len(kept) = Len(v.items)
                    THEN <<ms[i]>>
                           \o CopyMembers(ms, i + 1,
                                          left - FilesSize(v.items, 1))
                    ELSE <<Member(ms[i].k, JArr(kept))>>
            [] OTHER -> <<ms[i]>> \o CopyMembers(ms, i + 1, left)

\* DynamicJsonDocument envelope(1024); envelope[cmd] = doc: a document with
\* the one member cmd, which holds as much of doc as the envelope has room for
Envelope(cmd, doc) ==
  [key |-> cmd, doc |-> CopyMembers(doc, 1, EnvelopeCapacity - SlotSize)]

\* serializeJson(envelope, payload)
serializeJson(envelope) ==
  <<"{">> \o Quoted(<<envelope.key>>) \o <<":">> \o SerDoc(envelope.doc)
    \o <<"}">>

-----------------------------------------------------------------------------
(* WebSocketHelper::send *)

\* webSocket->sendTXT(num, payload): the transport writes the frame to an
\* open client and drops it otherwise
sendTXT(st, num, envelope, payload) ==
  IF num \in DOMAIN st.clients
  THEN [st EXCEPT !.sent = Append(@, [to |-> num, text |-> payload,
                                      key |-> envelope.key,
                                      doc |-> envelope.doc,
                                      entry |-> st.cur])]
  ELSE st

Smallest(S) == CHOOSE x \in S : \A y \in S : x <= y

\* the keys of the std::map in iteration order
RECURSIVE InOrder(_)
InOrder(S) ==
  IF S = {} THEN <<>>
  ELSE <<Smallest(S)>> \o InOrder(S \ {Smallest(S)})

RECURSIVE ForEachConnection(_, _, _, _, _)
ForEachConnection(st, keys, i, envelope, payload) ==
  IF i > Len(keys) THEN st
  ELSE ForEachConnection(sendTXT(st, keys[i], envelope, payload), keys, i + 1,
                         envelope, payload)

\* mutant: num 0 is a unicast target, only a negative num broadcasts
send_zeroIsUnicast(st, cmd, doc, num) ==
  IF ~webSocket THEN st
  ELSE LET envelope == Envelope(cmd, doc)
           payload == serializeJson(envelope)
       IN IF num >= 0
          THEN sendTXT(st, num, envelope, payload)
          ELSE ForEachConnection(st, InOrder(DOMAIN st.connections), 1,
                                 envelope, payload)

\* mutant: a target that the registry does not hold falls back to a broadcast
send_unknownTargetBroadcasts(st, cmd, doc, num) ==
  IF ~webSocket THEN st
  ELSE LET envelope == Envelope(cmd, doc)
           payload == serializeJson(envelope)
       IN IF num > 0 /\ num \in DOMAIN st.connections
          THEN sendTXT(st, num, envelope, payload)
          ELSE ForEachConnection(st, InOrder(DOMAIN st.connections), 1,
                                 envelope, payload)

\* send(const char *cmd, JsonDocument &doc, int num)
send(st, cmd, doc, num) ==
  IF ~webSocket THEN st
  ELSE LET envelope == Envelope(cmd, doc)
           payload == serializeJson(envelope)
       IN IF num > 0
          THEN sendTXT(st, num, envelope, payload)
          ELSE ForEachConnection(st, InOrder(DOMAIN st.connections), 1,
                                 envelope, payload)

\* send(const char *cmd, String text, int num)
sendText(st, cmd, text, num) ==
  send(st, cmd, <<Member("text", JStr(text))>>, num)

-----------------------------------------------------------------------------
(* The helpers that send the server's responses *)

sendSystemInfo(st, num) ==
  send(st, "info",
       <<Member("device", JStr(<<"Edge-o-Matic 3000">>)),
         Member("serial", Ext("Hardware::getDeviceSerial()")),
         Member("hwVersion", JStr(<<>>)),
         Member("fwVersion", Ext("VERSION"))>>,
       num)

sendSettings(st, num) ==
  send(st, "configList",
       <<Member("wifi_ssid", Ext("Config.wifi_ssid")),
         Member("websocket_port", Ext("Config.websocket_port"))>>,
       num)

sendWxStatus(st, num) ==
  send(st, "wifiStatus",
       <<Member("ssid", Ext("Config.wifi_ssid")),
         Member("ip", Ext("WiFi.localIP()")),
         Member("rssi", Ext("WiFi.RSSI()"))>>,
       num)

\* the card types of the SD library
CardTypes == {"CARD_NONE", "CARD_MMC", "CARD_SD", "CARD_SDHC", "CARD_UNKNOWN"}

CardTypeName(cardType) ==
  CASE cardType = "CARD_MMC" -> <<"MMC">>
    [] cardType = "CARD_SD" -> <<"SD">>
    [] cardType = "CARD_SDHC" -> <<"SDHC">>
    [] OTHER -> <<"UNKNOWN">>

sendSdStatus(st, num, cardType) ==
  send(st, "sdStatus",
       <<Member("size", Ext("SD.cardSize() / (1024 * 1024)")),
         Member("type", JStr(CardTypeName(cardType)))>>,
       num)

sendReadings(st, num) ==
  send(st, "readings",
       <<Member("pressure", Ext("OrgasmControl::getLastPressure()")),
         Member("pavg", Ext("OrgasmControl::getAveragePressure()")),
         Member("motor", Ext("Hardware::getMotorSpeed()")),
         Member("arousal", Ext("OrgasmControl::getArousal()")),
         Member("millis", JInt(millis))>>,
       num)

-----------------------------------------------------------------------------
(* The helpers that parse and answer the client's commands *)

\* the size of the console's line buffer
SERIAL_BUFFER_LEN == 256

\* strlcpy(dst, src, size): at most size - 1 characters of src
strlcpy(src, size) ==
  IF Len(src) <= size - 1 THEN src ELSE SubSeq(src, 1, size - 1)

\* what Console::handleMessage writes into text for a line
ConsoleOutput(line) == <<"Console::handleMessage(">> \o line \o <<")">>

cbSerialCmd(st, num, args) ==
  LET nonce == asInt(Get(args, "nonce"))
      cmd == Get(args, "cmd")
  IN IF ~IsCString(cmd)
     THEN Panic(st)    \* strlcpy reads through nullptr
     ELSE LET line == strlcpy(cmd.s, SERIAL_BUFFER_LEN - 1)
              text == ConsoleOutput(line)
              st1 == Log(st, Call("Console::handleMessage", <<>>, JStr(line)))
          IN send(st1, "serialCmd",
                  <<Member("nonce", JInt(nonce)), Member("text", JStr(text))>>,
                  num)

\* mutant: the slash is put in front of every path
NormalizePath_alwaysPrefixes(path) == <<"/">> \o path

\* if (path[0] != '/') path = String("/") + path;
\* String::operator[] yields 0 past the end of the string
NormalizePath(path) ==
  IF Len(path) = 0 \/ path[1] # "/" THEN <<"/">> \o path ELSE path

\* d is an immediate child of directory q
IsChild(q, d) ==
  LET base == IF q = <<"/">> THEN q ELSE q \o <<"/">>
  IN /\ Len(d) > Len(base)
     /\ SubSeq(d, 1, Len(base)) = base
     /\ \A j \in (Len(base) + 1) .. Len(d) : d[j] # "/"

RECURSIVE Listing(_)
Listing(S) ==
  IF S = {} THEN <<>>
  ELSE LET d == CHOOSE x \in S : TRUE
       IN <<[name |-> d, size |-> 0, dir |-> TRUE]>> \o Listing(S \ {d})

\* f.openNextFile() until it yields no entry
openNextFiles(dirs, q) == Listing({d \in dirs : IsChild(q, d)})

\* SD.open(path) yields a file iff the path exists
SDopen(dirs, q) == q \in dirs

\* SD.mkdir(path) creates a directory that does not exist yet
SDmkdir(dirs, q) == q \notin dirs

\* mutant: the reply is built without the request's nonce
cbDir_dropsNonce(st, num, args) ==
  LET path == NormalizePath(asString(Get(args, "path")))
      st1 == Log(st, Call("SD.open", <<>>, JStr(path)))
      head == <<Member("nonce", JInt(0))>>
      resp == IF ~SDopen(st.sdDirs, path)
              THEN head \o <<Member("files", JArr(<<>>)),
                             Member("error", JStr(<<"Invalid directory.">>))>>
              ELSE head \o <<Member("files",
                                    JArr(openNextFiles(st.sdDirs, path)))>>
  IN send(st1, "dir", resp, num)

cbDir(st, num, args) ==
  LET nonce == asInt(Get(args, "nonce"))
      path == NormalizePath(asString(Get(args, "path")))
      st1 == Log(st, Call("SD.open", <<>>, JStr(path)))
      head == <<Member("nonce", JInt(nonce))>>
      resp == IF ~SDopen(st.sdDirs, path)
              THEN head \o <<Member("files", JArr(<<>>)),
                             Member("error", JStr(<<"Invalid directory.">>))>>
              ELSE head \o <<Member("files",
                                    JArr(openNextFiles(st.sdDirs, path)))>>
  IN send(st1, "dir", resp, num)

cbMkdir(st, num, args) ==
  LET nonce == asInt(Get(args, "nonce"))
      path == NormalizePath(asString(Get(args, "path")))
      success == SDmkdir(st.sdDirs, path)
      st1 == Log(st, Call("SD.mkdir", <<>>, JStr(path)))
      st2 == IF success THEN [st1 EXCEPT !.sdDirs = @ \cup {path}] ELSE st1
      head == <<Member("nonce", JInt(nonce)), Member("path", JStr(path))>>
      resp == IF ~success
              THEN head \o <<Member("error",
                                    JStr(<<"Failed to create directory.">>))>>
              ELSE head
  IN send(st2, "mkdir", resp, num)

\* the debounce delay of cbConfigSet, in milliseconds
SaveDelay == 300

RECURSIVE SetConfigValues(_, _, _)
SetConfigValues(st, ms, i) ==
  IF i > Len(ms) THEN st
  ELSE SetConfigValues(
         Log(st, Call("setConfigValue", <<ms[i].k>>, JStr(asString(ms[i].v)))),
         ms, i + 1)

\* the store with nothing scheduled and nothing edited
NoSave == [save_at |-> 0, edited |-> -1, began |-> -1, writes |-> 0]

\* saveConfigToSd(save_at_ms) with a deadline: the write is scheduled for
\* save_at_ms, in place of the deadline scheduled before; an edit that comes
\* SaveDelay or more after the latest one begins a new burst
saveConfigToSd(st, save_at_ms) ==
  LET logged == Log(st, Call("saveConfigToSd", <<>>, JInt(save_at_ms)))
      fresh == st.store.edited < 0 \/ millis - st.store.edited >= SaveDelay
  IN [logged EXCEPT !.store =
        [save_at |-> save_at_ms, edited |-> millis,
         began |-> IF fresh THEN millis ELSE st.store.began,
         writes |-> IF fresh THEN 0 ELSE st.store.writes]]

\* mutant: the write is scheduled for now
cbConfigSet_savesNow(st, num, args) ==
  saveConfigToSd(SetConfigValues(st, args.members, 1), millis)

cbConfigSet(st, num, args) ==
  saveConfigToSd(SetConfigValues(st, args.members, 1), millis + SaveDelay)

cbSetMode(st, num, mode) ==
  Log(st, Call("RunGraphPage.setMode", <<>>, mode.self))

\* mutant: the handler acknowledges the command
cbSetMotor_acknowledges(st, num, speed) ==
  send(Log(st, Call("Hardware::setMotorSpeed", <<>>, speed.self)),
       "setMotor", <<>>, num)

cbSetMotor(st, num, speed) ==
  Log(st, Call("Hardware::setMotorSpeed", <<>>, speed.self))

-----------------------------------------------------------------------------
(* The connection registry *)

nullptr == [null |-> TRUE, num |-> 0, ip |-> "", stream_readings |-> FALSE]

\* new WebSocketConnection
NewWebSocketConnection ==
  [null |-> FALSE, num |-> 0, ip |-> "", stream_readings |-> FALSE]

\* m[k] = v on a std::map
MapPut(m, k, v) ==
  [x \in DOMAIN m \cup {k} |-> IF x = k THEN v ELSE m[x]]

\* m.erase(k)
MapErase(m, k) == [x \in DOMAIN m \ {k} |-> m[x]]

\* mutant: the flag is written to every connection of the registry
streamReadings_setsEveryFlag(st, num, value) ==
  [st EXCEPT !.connections =
     [id \in DOMAIN @ |->
        [@[id] EXCEPT !.stream_readings = asBool(value.self)]]]

\* WebSocketConnection *client = connections[num];
\* client->stream_readings = kvp.value();
\* operator[] inserts a nullptr for a num the map does not hold
streamReadings(st, num, value) ==
  IF num \in DOMAIN st.connections /\ ~st.connections[num].null
  THEN [st EXCEPT !.connections[num].stream_readings = asBool(value.self)]
  ELSE Panic([st EXCEPT !.connections = MapPut(@, num, nullptr)])

-----------------------------------------------------------------------------
(* Reading a text: what deserializeJson makes of the chunks of a payload. *)
(* A step of the reader yields [ok, v, pos]: whether it found what it     *)
(* looked for, the value it read, and the place of the next chunk.         *)

\* the chunk at place p, or the end of the text
Tok(t, p) == IF p <= Len(t) THEN t[p] ELSE "<end>"

Fail == [ok |-> FALSE, v |-> Null, pos |-> 0]

\* the element of a set of one element.  A reader works each value out
\* once and names it: body, with x the value of e, is Only({body : x \in {e}})
Only(S) == CHOOSE x \in S : TRUE

Got(v, pos) == [ok |-> TRUE, v |-> v, pos |-> pos]

\* the inverse of Escape
Unescape(x) ==
  [i \in 1 .. Len(x) |->
     CASE x[i] = "\\\"" -> "\""
       [] x[i] = "\\\\" -> "\\"
       [] OTHER -> x[i]]

\* the place of the quote that closes the string whose text begins at p
RECURSIVE ClosingQuote(_, _)
ClosingQuote(t, p) ==
  IF p > Len(t) THEN 0
  ELSE IF t[p] = "\"" THEN p
  ELSE ClosingQuote(t, p + 1)

\* a string in quotes
ReadString(t, p) ==
  IF Tok(t, p) # "\"" THEN Fail
  ELSE Only({IF q = 0 THEN Fail
             ELSE Got(Unescape(SubSeq(t, p + 1, q - 1)), q + 1)
               : q \in {ClosingQuote(t, p + 1)}})

DigitOf(c) == CHOOSE d \in 0 .. 9 : Digits[d + 1] = c

IsDigit(c) == \E d \in 0 .. 9 : Digits[d + 1] = c

\* the digits from place p on, read into the number that begins with acc
RECURSIVE ReadDigits(_, _, _)
ReadDigits(t, p, acc) ==
  IF IsDigit(Tok(t, p)) THEN ReadDigits(t, p + 1, 10 * acc + DigitOf(t[p]))
  ELSE Got(acc, p)

\* an integer
ReadNumber(t, p) ==
  LET neg == Tok(t, p) = "-"
      first == IF neg THEN p + 1 ELSE p
  IN IF ~IsDigit(Tok(t, first)) THEN Fail
     ELSE Only({Got(JInt(IF neg THEN 0 - n.v ELSE n.v), n.pos)
                  : n \in {ReadDigits(t, first, 0)}})

\* a string, a number, true, false or null
ReadScalar(t, p) ==
  CASE Tok(t, p) = "\"" ->
         Only({IF x.ok THEN Got(JStr(x.v), x.pos) ELSE Fail
                 : x \in {ReadString(t, p)}})
    [] Tok(t, p) = "true" -> Got(JBool(TRUE), p + 1)
    [] Tok(t, p) = "false" -> Got(JBool(FALSE), p + 1)
    [] Tok(t, p) = "null" -> Got(Null, p + 1)
    [] OTHER -> ReadNumber(t, p)

\* the member "name": of an object, read with the scalar it holds
ReadField(t, p, name) ==
  Only({IF ~k.ok \/ k.v # <<name>> \/ Tok(t, k.pos) # ":" THEN Fail
        ELSE ReadScalar(t, k.pos + 1)
          : k \in {ReadString(t, p)}})

\* the three members of an entry of a listing, read one after the other
FileDir(t, name, size) ==
  Only({IF ~dir.ok \/ dir.v.t # "bool" \/ Tok(t, dir.pos) # "}" THEN Fail
        ELSE Got([name |-> name.v.s, size |-> size.v.i, dir |-> dir.v.i = 1],
                 dir.pos + 1)
          : dir \in {ReadField(t, size.pos + 1, "dir")}})

FileSizeAndDir(t, name) ==
  Only({IF ~size.ok \/ size.v.t # "int" \/ Tok(t, size.pos) # "," THEN Fail
        ELSE FileDir(t, name, size)
          : size \in {ReadField(t, name.pos + 1, "size")}})

\* one entry of a listing: {"name":..,"size":..,"dir":..}
ReadFile(t, p) ==
  IF Tok(t, p) # "{" THEN Fail
  ELSE Only({IF ~name.ok \/ name.v.t # "str" \/ Tok(t, name.pos) # ","
             THEN Fail
             ELSE FileSizeAndDir(t, name)
               : name \in {ReadField(t, p + 1, "name")}})

\* the entries of a listing up to the closing bracket, after those in fs
RECURSIVE ReadFiles(_, _, _)
ReadFiles(t, p, fs) ==
  Only({IF ~f.ok THEN Fail
        ELSE CASE Tok(t, f.pos) = "," ->
                    ReadFiles(t, f.pos + 1, Append(fs, f.v))
               [] Tok(t, f.pos) = "]" -> Got(JArr(Append(fs, f.v)), f.pos + 1)
               [] OTHER -> Fail
          : f \in {ReadFile(t, p)}})

\* the value of a member: a listing or a scalar
ReadValue(t, p) ==
  IF Tok(t, p) # "[" THEN ReadScalar(t, p)
  ELSE IF Tok(t, p + 1) = "]" THEN Got(JArr(<<>>), p + 2)
  ELSE ReadFiles(t, p + 1, <<>>)

\* a key of one chunk and the colon after it
ReadKey(t, p) ==
  Only({IF ~k.ok \/ Len(k.v) # 1 \/ Tok(t, k.pos) # ":" THEN Fail
        ELSE Got(k.v[1], k.pos + 1)
          : k \in {ReadString(t, p)}})

\* the members of an object up to the closing brace, after those in ms
RECURSIVE ReadMembers(_, _, _)
ReadMembers(t, p, ms) ==
  Only({IF ~k.ok THEN Fail
        ELSE Only({IF ~v.ok THEN Fail
                   ELSE CASE Tok(t, v.pos) = "," ->
                               ReadMembers(t, v.pos + 1,
                                           Append(ms, Member(k.v, v.v)))
                          [] Tok(t, v.pos) = "}" ->
                               Got(Append(ms, Member(k.v, v.v)), v.pos + 1)
                          [] OTHER -> Fail
                     : v \in {ReadValue(t, k.pos)}})
          : k \in {ReadKey(t, p)}})

\* an object
ReadObject(t, p) ==
  IF Tok(t, p) # "{" THEN Fail
  ELSE IF Tok(t, p + 1) = "}" THEN Got(<<>>, p + 2)
  ELSE ReadMembers(t, p + 1, <<>>)

\* the payload of a command: an object or a scalar
ReadPayload(t, p) ==
  IF Tok(t, p) = "{"
  THEN Only({IF o.ok THEN Got(Object(o.v), o.pos) ELSE Fail
               : o \in {ReadObject(t, p)}})
  ELSE Only({IF x.ok THEN Got(Scalar(x.v), x.pos) ELSE Fail
               : x \in {ReadScalar(t, p)}})

\* the entries of an envelope up to the closing brace, after those in es
RECURSIVE ReadEntries(_, _, _)
ReadEntries(t, p, es) ==
  Only({IF ~k.ok THEN Fail
        ELSE Only({IF ~v.ok THEN Fail
                   ELSE CASE Tok(t, v.pos) = "," ->
                               ReadEntries(t, v.pos + 1,
                                           Append(es, Member(k.v, v.v)))
                          [] Tok(t, v.pos) = "}" ->
                               Got(Append(es, Member(k.v, v.v)), v.pos + 1)
                          [] OTHER -> Fail
                     : v \in {ReadPayload(t, k.pos)}})
          : k \in {ReadKey(t, p)}})

\* DynamicJsonDocument doc(1024)
DocumentCapacity == 1024

\* the slots the members ms take: one each, and four for an entry of a
\* listing; the strings stay in the payload buffer and take no room
RECURSIVE Slots(_, _)
Slots(ms, i) ==
  IF i > Len(ms) THEN 0
  ELSE 1 + (IF ms[i].v.t = "arr" THEN 4 * Len(ms[i].v.items) ELSE 0)
         + Slots(ms, i + 1)

RECURSIVE EntrySlots(_, _)
EntrySlots(es, i) ==
  IF i > Len(es) THEN 0
  ELSE 1 + Slots(es[i].v.members, 1) + EntrySlots(es, i + 1)

\* what the reader of deserializeJson makes of the text of a frame: the
\* entries of an envelope, unless the text is no JSON object or the
\* document has no room for it
ReadText(t) ==
  Only({IF x.ok /\ x.pos = Len(t) + 1
        THEN [kind |-> "scalar", entries |-> <<>>]
        ELSE IF ~es.ok \/ es.pos # Len(t) + 1
        THEN [kind |-> "malformed", entries |-> <<>>]
        ELSE IF EntrySlots(es.v, 1) * SlotSize > DocumentCapacity
        THEN [kind |-> "nomemory", entries |-> <<>>]
        ELSE [kind |-> "object", entries |-> es.v]
          : x \in {ReadValue(t, 1)},
            es \in {IF Tok(t, 1) # "{" THEN Fail
                    ELSE IF Tok(t, 2) = "}" THEN Got(<<>>, 3)
                    ELSE ReadEntries(t, 2, <<>>)}})

-----------------------------------------------------------------------------
(* onMessage and onWebSocketEvent *)

\* deserializeJson(doc, payload): an error for text that is no JSON and for
\* JSON that does not fit the document; the members read before the error
\* stay in the document
deserializeJson(raw) ==
  [err |-> raw.kind \in {"malformed", "nomemory"}, kind |-> raw.kind,
   entries |-> raw.entries]

\* doc.as<JsonObject>(): no members unless the document is an object
asObject(doc) == IF doc.kind = "scalar" THEN <<>> ELSE doc.entries

\* one pass of the loop over the envelope's entries
onEntry(st, num, kvp, cardType) ==
  LET cmd == kvp.k
  IN CASE cmd = "configSet" -> cbConfigSet(st, num, kvp.v)
       [] cmd = "info" -> sendSystemInfo(st, num)
       [] cmd = "configList" -> sendSettings(st, num)
       [] cmd = "serialCmd" -> cbSerialCmd(st, num, kvp.v)
       [] cmd = "getWiFiStatus" -> sendWxStatus(st, num)
       [] cmd = "getSDStatus" -> sendSdStatus(st, num, cardType)
       [] cmd = "setMode" -> cbSetMode(st, num, kvp.v)
       [] cmd = "setMotor" -> cbSetMotor(st, num, kvp.v)
       [] cmd = "streamReadings" -> streamReadings(st, num, kvp.v)
       [] cmd = "dir" -> cbDir(st, num, kvp.v)
       [] cmd = "mkdir" -> cbMkdir(st, num, kvp.v)
       [] OTHER -> sendText(st, "error", <<"Unknown command: ", cmd>>, num)

RECURSIVE Dispatch(_, _, _, _, _)
Dispatch(st, num, entries, i, cardType) ==
  IF i > Len(entries) \/ st.panic THEN st
  ELSE Dispatch(onEntry([st EXCEPT !.cur = i], num, entries[i], cardType),
                num, entries, i + 1, cardType)

\* mutant: the entries read before the error are dispatched all the same
onMessage_ignoresError(st, num, raw, cardType) ==
  Dispatch(st, num, asObject(deserializeJson(raw)), 1, cardType)

onMessage(st, num, raw, cardType) ==
  LET doc == deserializeJson(raw)
  IN IF doc.err THEN st
     ELSE Dispatch(st, num, asObject(doc), 1, cardType)

\* mutant: the disconnect leaves the registry as it is
onDisconnected_keepsEntry(st, num) == st

\* mutant: the disconnect of the latest client forgets it
onDisconnected_forgetsLatest(st, num) ==
  [st EXCEPT !.connections = MapErase(@, num),
             !.last_connection = IF @ = num THEN 0 ELSE @]

\* case WStype_DISCONNECTED
onDisconnected(st, num) == [st EXCEPT !.connections = MapErase(@, num)]

\* mutant: the new connection starts as a copy of the latest one
onConnected_copiesLatest(st, num) ==
  LET latest == IF st.last_connection \in DOMAIN st.connections
                THEN st.connections[st.last_connection]
                ELSE NewWebSocketConnection
      client == [latest EXCEPT !.ip = st.clients[num], !.num = num]
  IN sendSystemInfo([st EXCEPT !.connections = MapPut(@, num, client),
                               !.last_connection = num],
                    num)

\* case WStype_CONNECTED
onConnected(st, num) ==
  LET client == [NewWebSocketConnection EXCEPT !.ip = st.clients[num],
                                               !.num = num]
  IN sendSystemInfo([st EXCEPT !.connections = MapPut(@, num, client),
                               !.last_connection = num],
                    num)

onWebSocketEvent(st, num, type, raw, cardType) ==
  CASE type = "WStype_DISCONNECTED" -> onDisconnected(st, num)
    [] type = "WStype_CONNECTED" -> onConnected(st, num)
    [] type = "WStype_TEXT" -> onMessage(st, num, raw, cardType)
    [] OTHER -> st

-----------------------------------------------------------------------------
(* The state machine *)

NoRaw == [kind |-> "none", entries |-> <<>>]

EmptyMap == [x \in {} |-> nullptr]

NoEvent == [type |-> "none", num |-> 0, raw |-> NoRaw]

\* the log of the latest event has been read: the loop takes the next event
Idle == lastEvent = NoEvent

\* last_connection before any client has connected
InitialLastConnection == 0

Root == <<"/">>

\* no payload is on its way
NoCodec ==
  [phase |-> "none", key |-> "", payload |-> <<>>, text |-> <<>>,
   decoded |-> [err |-> FALSE, kind |-> "none", entries |-> <<>>]]

\* the firmware before begin()
Boot ==
  /\ webSocket = FALSE
  /\ clients = [x \in {} |-> ""]
  /\ connections = EmptyMap
  /\ last_connection = InitialLastConnection
  /\ sdDirs = {Root}
  /\ millis = 0
  /\ store = NoSave
  /\ sent = <<>>
  /\ calls = <<>>
  /\ panicked = FALSE
  /\ lastEvent = NoEvent

Init == Boot /\ codec = NoCodec

\* the state an event leaves behind: st, or the state after a reboot when
\* the handler ran into a CPU exception (the SD card keeps its directories)
Finish(st, event) ==
  /\ lastEvent' = event
  /\ codec' = codec
  /\ sent' = st.sent
  /\ calls' = st.calls
  /\ sdDirs' = st.sdDirs
  /\ panicked' = st.panic
  /\ millis' = IF st.panic THEN 0 ELSE millis
  /\ store' = IF st.panic THEN NoSave ELSE st.store
  /\ webSocket' = IF st.panic THEN FALSE ELSE webSocket
  /\ clients' = IF st.panic THEN [x \in {} |-> ""] ELSE st.clients
  /\ connections' = IF st.panic THEN EmptyMap ELSE st.connections
  /\ last_connection' = IF st.panic THEN InitialLastConnection
                        ELSE st.last_connection

\* begin(): setup creates the server
Begin ==
  /\ Idle
  /\ ~webSocket
  /\ webSocket' = TRUE
  /\ lastEvent' = [type |-> "begin", num |-> 0, raw |-> NoRaw]
  /\ codec' = codec
  /\ sent' = <<>>
  /\ calls' = <<>>
  /\ panicked' = FALSE
  /\ UNCHANGED <<clients, connections, last_connection, sdDirs, millis,
                 store>>

\* a client connects: the transport gives it its lowest free slot and
\* reports the slot as num
Connect(ip) ==
  /\ Idle
  /\ webSocket
  /\ Ids \ DOMAIN clients # {}
  /\ LET num == Smallest(Ids \ DOMAIN clients)
         opened == [Global EXCEPT !.clients = MapPut(@, num, ip)]
     IN Finish(onWebSocketEvent(opened, num, "WStype_CONNECTED", NoRaw,
                                "CARD_NONE"),
               [type |-> "WStype_CONNECTED", num |-> num, raw |-> NoRaw])

\* the transport frees a slot and reports the disconnect: of an open client,
\* or of a slot whose client never got as far as the CONNECTED event
Disconnect(num) ==
  /\ Idle
  /\ webSocket
  /\ LET closed == [Global EXCEPT !.clients = MapErase(@, num)]
     IN Finish(onWebSocketEvent(closed, num, "WStype_DISCONNECTED", NoRaw,
                                "CARD_NONE"),
               [type |-> "WStype_DISCONNECTED", num |-> num, raw |-> NoRaw])

HasKey(raw, k) == \E i \in 1 .. Len(raw.entries) : raw.entries[i].k = k

\* an open client sends a text frame
Text(num, raw) ==
  /\ Idle
  /\ webSocket
  /\ num \in DOMAIN clients
  /\ \E cardType \in IF HasKey(raw, "getSDStatus") THEN CardTypes
                     ELSE {"CARD_NONE"} :
       Finish(onWebSocketEvent(Global, num, "WStype_TEXT", raw, cardType),
              [type |-> "WStype_TEXT", num |-> num, raw |-> raw])

OtherTypes ==
  {"WStype_BIN", "WStype_ERROR", "WStype_FRAGMENT_TEXT_START",
   "WStype_FRAGMENT_BIN_START", "WStype_FRAGMENT", "WStype_FRAGMENT_FIN"}

\* any other event of an open client
Other(num, type) ==
  /\ Idle
  /\ webSocket
  /\ num \in DOMAIN clients
  /\ Finish(onWebSocketEvent(Global, num, type, NoRaw, "CARD_NONE"),
            [type |-> type, num |-> num, raw |-> NoRaw])

\* a collaborator pushes the readings to one client (num > 0) or to all
Readings(num) ==
  /\ Idle
  /\ Finish(sendReadings(Global, num),
            [type |-> "sendReadings", num |-> num, raw |-> NoRaw])

\* a transport that breaks its contract reports a connect for a slot that
\* is open already
DuplicateConnect(num, ip) ==
  /\ Idle
  /\ webSocket
  /\ num \in DOMAIN clients
  /\ LET opened == [Global EXCEPT !.clients = MapPut(@, num, ip)]
     IN Finish(onWebSocketEvent(opened, num, "WStype_CONNECTED", NoRaw,
                                "CARD_NONE"),
               [type |-> "WStype_CONNECTED", num |-> num, raw |-> NoRaw])

\* a transport that breaks its contract hands over a text frame for a slot
\* that is not open
StrayText(num, raw) ==
  /\ Idle
  /\ webSocket
  /\ num \notin DOMAIN clients
  /\ Finish(onWebSocketEvent(Global, num, "WStype_TEXT", raw, "CARD_NONE"),
            [type |-> "WStype_TEXT", num |-> num, raw |-> raw])

\* one pass of loop() without an inbound event, dt milliseconds after the
\* pass before: the store writes the configuration to the card once the
\* clock has reached the deadline
Loop(dt) ==
  /\ Idle
  /\ webSocket
  /\ millis + dt <= MaxMillis
  /\ millis' = millis + dt
  /\ store' = IF store.save_at > 0 /\ millis' >= store.save_at
              THEN [store EXCEPT !.save_at = 0, !.writes = @ + 1]
              ELSE store
  /\ UNCHANGED <<webSocket, clients, connections, last_connection, sdDirs,
                 sent, calls, panicked, lastEvent, codec>>

\* the frames and the calls of the latest event are read and the log is
\* cleared; the registry, the transport and the card stay as they are
Observe ==
  /\ ~Idle
  /\ lastEvent' = NoEvent
  /\ codec' = codec
  /\ sent' = <<>>
  /\ calls' = <<>>
  /\ panicked' = FALSE
  /\ UNCHANGED <<webSocket, clients, connections, last_connection, sdDirs,
                 millis, store>>

-----------------------------------------------------------------------------
(* The messages of the clients *)

Nonce7 == Member("nonce", JInt(7))

\* the commands that change or show the router's state, and an unknown one
RoutingRequests ==
  { Member("info", Object(<<Nonce7>>)),
    Member("setMode", Scalar(JInt(1))),
    Member("setMode", Scalar(JStr(<<"auto">>))),
    Member("setMotor", Scalar(JInt(128))),
    Member("setMotor", Scalar(Null)),
    Member("streamReadings", Scalar(JBool(TRUE))),
    Member("streamReadings", Scalar(JBool(FALSE))),
    Member("frobnicate", Scalar(Null)) }

\* the nonce of a request: none, an integer, a string token
Nonces == {<<>>, <<Nonce7>>, <<Member("nonce", JStr(<<"tok">>))>>}

\* a nonce that is present
GivenNonces == Nonces \ {<<>>}

\* the status and configuration commands, and the console command with and
\* without its cmd member
StatusRequests ==
  { Member("configList", Object(<<Nonce7>>)),
    Member("getWiFiStatus", Object(<<Nonce7>>)),
    Member("getSDStatus", Object(<<Nonce7>>)),
    Member("configSet", Object(<<Member("wifi_ssid", JStr(<<"net">>)),
                                 Member("websocket_port", JInt(8))>>)),
    Member("serialCmd", Object(<<Nonce7>>)) }
    \cup {Member("serialCmd", Object(n \o <<Member("cmd", JStr(<<"h">>))>>)) :
            n \in GivenNonces}

\* the path of a request: empty, relative, absolute
Paths == {<<>>, <<"a">>, <<"/">>, <<"/", "a">>}

\* the file commands: every path with a nonce, a relative path with every
\* nonce, and a listing without a path
FileRequests ==
  {Member(c, Object(<<Nonce7, Member("path", JStr(p))>>)) :
     c \in {"dir", "mkdir"}, p \in Paths}
    \cup {Member(c, Object(n \o <<Member("path", JStr(<<"a">>))>>)) :
            c \in {"dir", "mkdir"}, n \in Nonces}
    \cup {Member("dir", Object(<<Nonce7>>))}

\* the envelopes of at most n entries of E; a JSON object holds a key once
RECURSIVE Envelopes(_, _)
Envelopes(E, n) ==
  IF n = 0 THEN {<<>>}
  ELSE LET shorter == Envelopes(E, n - 1)
       IN shorter \cup
          {Append(es, e) : <<es, e>> \in
             {p \in shorter \X E :
                /\ Len(p[1]) = n - 1
                /\ \A i \in 1 .. Len(p[1]) : p[1][i].k # p[2].k}}

\* the frames over E: the envelopes, text cut off after at most one entry,
\* an object too large for the document, and JSON that is no object
Frames(E) ==
  {[kind |-> "object", entries |-> es] : es \in Envelopes(E, MaxEntries)}
    \cup {[kind |-> k, entries |-> es] :
            k \in {"malformed", "nomemory"}, es \in Envelopes(E, 1)}
    \cup {[kind |-> "scalar", entries |-> <<>>]}

AllFrames ==
  Frames(RoutingRequests) \cup Frames(StatusRequests) \cup Frames(FileRequests)

Next ==
  \/ Begin
  \/ \E ip \in Addresses : Connect(ip)
  \/ \E num \in Ids : Disconnect(num)
  \/ \E num \in Ids, raw \in AllFrames : Text(num, raw)
  \/ \E num \in Ids, type \in OtherTypes : Other(num, type)
  \/ \E num \in Targets : Readings(num)
  \/ Observe

Spec == Init /\ [][Next]_vars

\* the events of a transport that does not keep to its contract: connects
\* for open slots and text frames for closed ones, among the regular events
NextStray ==
  \/ Begin
  \/ \E ip \in Addresses : Connect(ip)
  \/ \E num \in Ids : Disconnect(num)
  \/ \E num \in Ids, raw \in Frames(RoutingRequests) : Text(num, raw)
  \/ \E num \in Ids, ip \in Addresses : DuplicateConnect(num, ip)
  \/ \E num \in Ids, raw \in Frames(RoutingRequests) : StrayText(num, raw)
  \/ Observe

SpecStray == Init /\ [][NextStray]_vars

\* the frames that edit the configuration
ConfigFrames ==
  {f \in Frames(StatusRequests) :
     f.kind = "object" /\ Len(f.entries) = 1 /\ HasKey(f, "configSet")}

\* the clients edit the configuration while the clock runs
NextSave ==
  \/ Begin
  \/ \E ip \in Addresses : Connect(ip)
  \/ \E num \in Ids, raw \in ConfigFrames : Text(num, raw)
  \/ \E dt \in Steps : Loop(dt)
  \/ Observe

SpecSave == Init /\ [][NextSave]_vars

-----------------------------------------------------------------------------
(* A payload on its way through the codec *)

\* send(): envelope[cmd] = doc; serializeJson(envelope, payload)
Encode ==
  /\ codec.phase = "payload"
  /\ codec' = [codec EXCEPT
                 !.phase = "text",
                 !.text = serializeJson(Envelope(codec.key, codec.payload))]
  /\ UNCHANGED <<webSocket, clients, connections, last_connection, sdDirs,
                 millis, store, sent, calls, panicked, lastEvent>>

\* onMessage(): deserializeJson(doc, payload)
Decode ==
  /\ codec.phase = "text"
  /\ codec' = [codec EXCEPT
                 !.phase = "decoded",
                 !.decoded = deserializeJson(ReadText(codec.text))]
  /\ UNCHANGED <<webSocket, clients, connections, last_connection, sdDirs,
                 millis, store, sent, calls, panicked, lastEvent>>

\* the payloads hold at most MaxOptions options or MaxFiles files
MaxOptions == 20

MaxFiles == 15

\* a configuration of n numeric options
Options(n) == [k \in 1 .. n |-> Member(ToString(k), JInt(k))]

FileNames ==
  <<"a", "b", "c", "d", "e", "f", "g", "h", "i", "j", "k", "l", "m", "n",
    "o", "p", "q", "r", "s", "t">>

\* the reply of dir for a directory of n files with names of one character
DirReply(n) ==
  <<Member("nonce", JInt(7)),
    Member("files",
           JArr([k \in 1 .. n |->
                   [name |-> <<FileNames[k]>>, size |-> 100 * k,
                    dir |-> k = 1]]))>>

\* doc is a document that a DynamicJsonDocument of the capacity can hold
Holds(doc, capacity) == CopyMembers(doc, 1, capacity) = doc

\* payloads of every kind of value: numbers, strings, booleans, null
MixedPayloads ==
  { <<>>,
    <<Member("text", JStr(<<"say ", "\"", "hi", "\"", " \\ ">>))>>,
    <<Member("pressure", JInt(0)), Member("pavg", JInt(-12)),
      Member("motor", JInt(255)), Member("arousal", JInt(4095)),
      Member("millis", JInt(86400000))>>,
    <<Member("nonce", JInt(7)), Member("path", JStr(<<"/", "a">>)),
      Member("error", JStr(<<"Failed to create directory.">>))>>,
    <<Member("on", JBool(TRUE)), Member("off", JBool(FALSE)),
      Member("none", Null)>> }

\* the payloads the handlers hand to send(), each one small enough for the
\* document its handler builds it in: sendSettings, cbDir and the rest
CodecInputs ==
  {[key |-> "configList", payload |-> Options(n)] :
     n \in {m \in 0 .. MaxOptions : Holds(Options(m), 4096)}}
    \cup {[key |-> "dir", payload |-> DirReply(n)] :
            n \in {m \in 0 .. MaxFiles : Holds(DirReply(m), 1024)}}
    \cup {[key |-> k, payload |-> p] :
            k \in {"readings", "mkdir"}, p \in MixedPayloads}

InitCodec ==
  /\ Boot
  /\ codec \in {[NoCodec EXCEPT !.phase = "payload", !.key = in.key,
                                !.payload = in.payload] : in \in CodecInputs}

NextCodec == Encode \/ Decode

SpecCodec == InitCodec /\ [][NextCodec]_vars

-----------------------------------------------------------------------------
(* The claims.  A state right after an event shows the event in lastEvent,  *)
(* the frames it delivered in sent and the collaborator calls in calls.     *)

IsText == lastEvent.type = "WStype_TEXT"

\* the latest event is a text frame that deserializeJson accepted
Decoded == IsText /\ lastEvent.raw.kind \in {"object", "scalar"}

Entries == lastEvent.raw.entries

\* the frames delivered while entry e was dispatched
SentFor(e) == {i \in DOMAIN sent : sent[i].entry = e}

\* the frames delivered to client id
SentTo(id) == {i \in DOMAIN sent : sent[i].to = id}

\* the member name of a reply payload, null when there is none
DocGet(doc, name) == Find(doc, name, 1)

DocHas(doc, name) == \E i \in DOMAIN doc : doc[i].k = name

\* C1: an id is a key of the connection registry if and only if the
\* transport has that client open; after a disconnect event for id, id is
\* not in the registry.
C1_RegistryIffOpen ==
  /\ DOMAIN connections = DOMAIN clients
  /\ \A id \in DOMAIN connections : ~connections[id].null
  /\ lastEvent.type = "WStype_DISCONNECTED"
       => lastEvent.num \notin DOMAIN connections

\* a registered client has disconnected while another one stays registered
C1_Witness ==
  /\ lastEvent.type = "WStype_DISCONNECTED"
  /\ lastEvent.num = last_connection
  /\ DOMAIN connections # {}

\* C2: every reply sent while a text frame of client s is dispatched is
\* delivered to s and to no other client.
C2_RepliesToSenderOnly ==
  IsText => \A i \in DOMAIN sent : sent[i].to = lastEvent.num

\* C3: a send with a num <= 0 delivers the same text exactly once to every
\* id of the registry and to no other id.
C3_BroadcastReachesRegistry ==
  (lastEvent.type = "sendReadings" /\ lastEvent.num <= 0) =>
    /\ \A id \in DOMAIN connections : Cardinality(SentTo(id)) = 1
    /\ \A i \in DOMAIN sent :
         /\ sent[i].to \in DOMAIN connections
         /\ sent[i].key = "readings"
         /\ sent[i].text = sent[1].text

\* the readings are broadcast to two registered clients
C3_Witness ==
  /\ lastEvent.type = "sendReadings"
  /\ lastEvent.num <= 0
  /\ Cardinality(DOMAIN connections) >= 2
  /\ Len(sent) >= 2

\* the eleven command names onMessage knows
Recognized ==
  {"configSet", "info", "configList", "serialCmd", "getWiFiStatus",
   "getSDStatus", "setMode", "setMotor", "streamReadings", "dir", "mkdir"}

\* the commands that answer
Replying ==
  {"info", "configList", "serialCmd", "getWiFiStatus", "getSDStatus", "dir",
   "mkdir"}

HasUnknown == \E e \in DOMAIN Entries : Entries[e].k \notin Recognized

\* C4: an entry with an unknown name gets exactly one reply, error with the
\* text "Unknown command: <name>", addressed to the sender; the other
\* entries of the envelope are handled and answered all the same.
C4_UnknownCommandReply ==
  (Decoded /\ HasUnknown) =>
    \A e \in DOMAIN Entries :
      /\ Entries[e].k \notin Recognized =>
           /\ Cardinality(SentFor(e)) = 1
           /\ \A i \in SentFor(e) :
                /\ sent[i].to = lastEvent.num
                /\ sent[i].key = "error"
                /\ sent[i].doc =
                     <<Member("text",
                              JStr(<<"Unknown command: ", Entries[e].k>>))>>
      /\ Entries[e].k \in Replying => SentFor(e) # {}

DecodeFails(event) ==
  /\ event.type = "WStype_TEXT"
  /\ event.raw.kind \in {"malformed", "nomemory"}

\* C5: a text frame that fails to decode invokes no handler, sends no
\* reply, and leaves the registry, the flags and everything else as they
\* were, so that the next event meets the state the frame met.
C5_DecodeFailureIsDropped ==
  [][DecodeFails(lastEvent') =>
       /\ sent' = <<>>
       /\ calls' = <<>>
       /\ ~panicked'
       /\ UNCHANGED <<webSocket, clients, connections, last_connection,
                      sdDirs, millis, store>>]_vars

\* a frame that was cut off after a command entry reached a registered client
C5_Witness ==
  /\ DecodeFails(lastEvent)
  /\ Len(Entries) = 1
  /\ lastEvent.num \in DOMAIN connections

\* C6: a connect event sends exactly one frame: info, to the new client.
C6_ConnectPushesInfo ==
  lastEvent.type = "WStype_CONNECTED" =>
    /\ Len(sent) = 1
    /\ sent[1].to = lastEvent.num
    /\ sent[1].key = "info"

\* the nonce member of the request that entry e carries
RequestNonce(e) == Get(Entries[e].v, "nonce")

\* C7 as stated: the reply to a request that carries a nonce holds that
\* nonce, for each of the seven commands that answer.
C7_NonceEchoed ==
  Decoded =>
    \A i \in DOMAIN sent :
      (/\ Entries[sent[i].entry].k \in Replying
       /\ RequestNonce(sent[i].entry).t # "null")
        => DocGet(sent[i].doc, "nonce") = RequestNonce(sent[i].entry)

\* C7 as amended: the reply to serialCmd, dir and mkdir holds the integer
\* nonce of the request; the replies to info, configList, getWiFiStatus and
\* getSDStatus hold no nonce.
C7_IntegerNonceEchoed ==
  Decoded =>
    \A i \in DOMAIN sent :
      /\ (/\ Entries[sent[i].entry].k \in {"serialCmd", "dir", "mkdir"}
          /\ RequestNonce(sent[i].entry).t = "int")
           => DocGet(sent[i].doc, "nonce") = RequestNonce(sent[i].entry)
      /\ Entries[sent[i].entry].k
           \in {"info", "configList", "getWiFiStatus", "getSDStatus"}
           => ~DocHas(sent[i].doc, "nonce")

\* a dir request with nonce 7 was answered
C7_Witness ==
  /\ Decoded
  /\ \E i \in DOMAIN sent :
       /\ sent[i].key = "dir"
       /\ RequestNonce(sent[i].entry) = JInt(7)
       /\ DocGet(sent[i].doc, "nonce") = JInt(7)

\* the call fn made while entry e was dispatched
CallsFor(e, fn) == {c \in DOMAIN calls : calls[c].entry = e /\ calls[c].fn = fn}

\* entry e opened a path that does not exist (directories are never removed)
OpenFailed(e) ==
  \E c \in CallsFor(e, "SD.open") : calls[c].arg.s \notin sdDirs

\* C8: a dir request with nonce N for a path that cannot be opened gets
\* exactly one dir reply, with nonce N and the error "Invalid directory."
\* and without a files member.
C8_InvalidDirectoryReply ==
  Decoded =>
    \A e \in DOMAIN Entries :
      (/\ Entries[e].k = "dir"
       /\ RequestNonce(e).t = "int"
       /\ OpenFailed(e))
        => /\ Cardinality(SentFor(e)) = 1
           /\ \A i \in SentFor(e) :
                /\ sent[i].key = "dir"
                /\ DocGet(sent[i].doc, "nonce") = RequestNonce(e)
                /\ DocGet(sent[i].doc, "error")
                     = JStr(<<"Invalid directory.">>)
                /\ ~DocHas(sent[i].doc, "files")

\* the path with a leading slash
Absolute(p) == IF p # <<>> /\ Head(p) = "/" THEN p ELSE <<"/">> \o p

FsCall(cmd) == IF cmd = "dir" THEN "SD.open" ELSE "SD.mkdir"

\* C9: dir and mkdir call the file system with the path made absolute: a
\* path without a leading slash gets one, a path with one is passed as it
\* is; the reply of mkdir names that path, and the reply of dir is the
\* error iff that path does not exist.
C9_PathIsMadeAbsolute ==
  Decoded =>
    \A e \in DOMAIN Entries :
      (/\ Entries[e].k \in {"dir", "mkdir"}
       /\ Get(Entries[e].v, "path").t = "str")
        => LET q == Absolute(Get(Entries[e].v, "path").s)
           IN /\ Cardinality(CallsFor(e, FsCall(Entries[e].k))) = 1
              /\ \A c \in CallsFor(e, FsCall(Entries[e].k)) :
                   calls[c].arg = JStr(q)
              /\ \A i \in SentFor(e) :
                   /\ Entries[e].k = "mkdir"
                        => DocGet(sent[i].doc, "path") = JStr(q)
                   /\ (Entries[e].k = "dir" /\ Len(Entries) = 1)
                        => (DocHas(sent[i].doc, "error") <=> q \notin sdDirs)

\* mkdir of the relative path a created /a and said so
C9_Witness ==
  /\ Decoded
  /\ \E i \in DOMAIN sent :
       /\ Entries[sent[i].entry].k = "mkdir"
       /\ Get(Entries[sent[i].entry].v, "path") = JStr(<<"a">>)
       /\ DocGet(sent[i].doc, "path") = JStr(<<"/", "a">>)
       /\ ~DocHas(sent[i].doc, "error")

\* C10: no frame is sent for a setMode or a setMotor entry.
C10_ActuatorCommandsNeverReply ==
  IsText =>
    \A i \in DOMAIN sent :
      Entries[sent[i].entry].k \notin {"setMode", "setMotor"}

\* setMotor was forwarded for a registered client of two, and nothing was sent
C10_Witness ==
  /\ Decoded
  /\ Cardinality(DOMAIN connections) >= 2
  /\ \E c \in DOMAIN calls : calls[c].fn = "Hardware::setMotorSpeed"
  /\ sent = <<>>

\* the flag of every registered connection
Flags == [id \in DOMAIN connections |-> connections[id].stream_readings]

\* the entries of the decoded frame event that carry key k with a boolean
BoolEntries(event, k) ==
  {e \in DOMAIN event.raw.entries :
     /\ event.raw.entries[e].k = k
     /\ event.raw.entries[e].v.self.t = "bool"}

\* C11: a streamReadings entry with the boolean b, sent by a registered
\* client, sets the flag of that client to b, leaves the flags of the other
\* clients and the keys of the registry as they were, and sends no frame.
C11_StreamReadingsSetsSenderFlag ==
  [][(/\ lastEvent'.type = "WStype_TEXT"
      /\ lastEvent'.raw.kind = "object"
      /\ lastEvent'.num \in DOMAIN connections)
       => \A e \in BoolEntries(lastEvent', "streamReadings") :
            /\ DOMAIN connections' = DOMAIN connections
            /\ connections'[lastEvent'.num].stream_readings
                 = (lastEvent'.raw.entries[e].v.self.i = 1)
            /\ \A id \in DOMAIN connections \ {lastEvent'.num} :
                 connections'[id] = connections[id]
            /\ \A i \in DOMAIN sent' : sent'[i].entry # e]_vars

\* client 1 of two has switched its flag on; client 0 keeps its flag off
C11_Witness ==
  /\ Decoded
  /\ lastEvent.num = 1
  /\ BoolEntries(lastEvent, "streamReadings") # {}
  /\ DOMAIN connections = {0, 1}
  /\ connections[1].stream_readings
  /\ ~connections[0].stream_readings

IsConnect == lastEvent.type = "WStype_CONNECTED"

\* C12: the connection that a connect event creates has its flag off,
\* whatever flags were switched on before, on the same id or on another.
C12_NewConnectionStartsOff ==
  IsConnect =>
    /\ lastEvent.num \in DOMAIN connections
    /\ ~connections[lastEvent.num].null
    /\ ~connections[lastEvent.num].stream_readings

\* slot 0 was closed and is connected again while client 1 has its flag on
C12_Witness ==
  /\ IsConnect
  /\ lastEvent.num = 0
  /\ 1 \in DOMAIN connections
  /\ connections[1].stream_readings

\* the latest event is a decoded frame with a configSet entry
IsConfigSet == Decoded /\ HasKey(lastEvent.raw, "configSet")

\* C13: every configSet moves the deadline of the write to now + 300 ms; a
\* burst of configSet commands, each less than 300 ms after the one before,
\* is written to the card once, and not before 300 ms have passed since the
\* last command of the burst.
C13_BurstIsSavedOnce ==
  /\ IsConfigSet => store.save_at = millis + 300
  /\ store.writes <= 1
  /\ store.writes = 1 => millis >= store.edited + 300
  /\ (store.edited >= 0 /\ millis >= store.edited + 300)
       => store.writes = 1 /\ store.save_at = 0

\* three or more edits over 100 ms or more were written once, 300 ms after
\* the last of them
C13_Witness ==
  /\ store.edited >= store.began + 100
  /\ store.edited < store.began + 300
  /\ millis = store.edited + 300
  /\ store.writes = 1

\* C14: a connect event for an id that the registry holds already is a
\* fatal inconsistency: it ends in a restart, or at least it creates no
\* connection and greets nobody as a regular connect does.
C14_DuplicateConnectIsFatal ==
  [][(/\ lastEvent'.type = "WStype_CONNECTED"
      /\ lastEvent'.num \in DOMAIN connections)
       => \/ panicked'
          \/ connections' = connections /\ sent' = <<>>]_vars

\* entry e was processed: a frame was sent or a collaborator was called for it
Handled(e) ==
  \/ \E i \in DOMAIN sent : sent[i].entry = e
  \/ \E c \in DOMAIN calls : calls[c].entry = e

\* C15: a handler that fails is reported to the sender with an error reply,
\* and the entries after it are processed all the same: every entry of a
\* decoded envelope is answered or forwarded (streamReadings, which does
\* neither, aside), and a failure leaves an error frame for the sender.
C15_HandlerFailureIsReported ==
  Decoded =>
    /\ \A e \in DOMAIN Entries :
         Entries[e].k # "streamReadings" => Handled(e)
    /\ panicked =>
         \E i \in DOMAIN sent :
           sent[i].key = "error" /\ sent[i].to = lastEvent.num

\* the event is a push of the readings to a positive id the registry lacks
StaleTarget(event, registry) ==
  /\ event.type = "sendReadings"
  /\ event.num > 0
  /\ event.num \notin DOMAIN registry

\* C16: a send to a positive id that the registry does not hold, or holds no
\* longer, delivers no frame, raises no error and leaves the registry and
\* its flags as they were.
C16_StaleTargetIsSkipped ==
  [][StaleTarget(lastEvent', connections) =>
       /\ sent' = <<>>
       /\ ~panicked'
       /\ UNCHANGED <<webSocket, clients, connections, last_connection>>]_vars

\* the readings were pushed to client 1 after it had gone, while client 0
\* stays registered
C16_Witness ==
  /\ StaleTarget(lastEvent, connections)
  /\ webSocket
  /\ last_connection = 1
  /\ DOMAIN connections = {0}
  /\ sent = <<>>

\* C17: every configSet entry is answered with a configList frame for the
\* sender, sent after the options of the entry have been applied.
C17_ConfigSetIsAnswered ==
  Decoded =>
    \A e \in DOMAIN Entries :
      Entries[e].k = "configSet" =>
        \E i \in SentFor(e) :
          /\ sent[i].key = "configList"
          /\ sent[i].to = lastEvent.num
          /\ Cardinality(CallsFor(e, "setConfigValue"))
               = Len(Entries[e].v.members)

C20_TextKeepsRegistryKeys ==
  [][lastEvent'.type = "WStype_TEXT"
       => DOMAIN connections' = DOMAIN connections]_vars

\* C18: the text that send() makes of a key and a payload is read back as
\* the envelope with the one entry key: payload, whatever the payload holds
\* and however large the handler has built it.
C18_DecodeInvertsEncode ==
  codec.phase = "decoded" =>
    /\ ~codec.decoded.err
    /\ asObject(codec.decoded) = <<Member(codec.key, Object(codec.payload))>>

====
